---------------------------- MODULE Spec2Model ----------------------------
(***************************************************************************)
(* Model of the HYPE/FLOP order book server (src/index.ts).                *)
(*                                                                         *)
(* Numbers are decimal fixed point, computed exactly:                      *)
(*   price            in hundredths            (0.30  is 30)               *)
(*   shares           in ten-thousandths       (10    is 100000)           *)
(*   amount, notional in millionths            (3.00  is 3000000)          *)
(* so that shares * price is an amount without any scaling, and            *)
(* amount / price is a share count.  toFixed(2) and toFixed(4) round to    *)
(* the nearest unit of the result, halves up.  Quotients that the code     *)
(* does not round (totalShares of a market buy) are kept as fractions.     *)
(* The binary representation error of IEEE doubles is not modelled.        *)
(*                                                                         *)
(* An order object is a record; its field ref is the identity of the       *)
(* JavaScript object (arrays built by filter and sort hold references to   *)
(* the objects of orderBook, and the loops mutate them in place).  While a *)
(* request is served the objects of orderBook are identified by their      *)
(* index in orderBook when the request arrived, and the order the request  *)
(* creates by 0; last.origin tells, for each place of orderBook after the  *)
(* request, which object of prevBook rests there.                          *)
(***************************************************************************)
EXTENDS Integers, Sequences, FiniteSets

\* ------------------------------------------------------------------ bounds
MaxOrders == 3          \* limit orders accepted over the life of the server

\* ------------------------------------------------------------------ inputs
Assets         == {"HYPE", "FLOP"}
PriceInputs    == {0, 30, 70}                  \* 0 is rejected by the routes
NotionalInputs == {10, 3000000}                \* 0.00001, 3.00 (limit buy)
ShareInputs    == {100000}                     \* 10 shares (limit sell)
BudgetInputs   == {1200000, 3000000}           \* 1.20, 3.00 (market buy)
SellInputs     == {50000, 300000}              \* 5, 30 shares (market sell)
Elapsed        == {1}                          \* milliseconds between two placements

VARIABLES
    orderBook,   \* the resting orders, in array order
    clock,       \* the value Date.now() last returned
    created,     \* the number of orders created so far
    prevBook,    \* orderBook when the last request arrived
    last         \* the last request and its response

vars == <<orderBook, clock, created, prevBook, last>>

\* ------------------------------------------------------------- arithmetic
Min(a, b) == IF a <= b THEN a ELSE b

RECURSIVE GCD(_, _)
GCD(a, b) == IF b = 0 THEN a ELSE GCD(b, a % b)

\* a fraction n/d, d > 0, in lowest terms
Frac(n, d) == LET g == GCD(n, d) IN IF g = 0 THEN <<0, 1>> ELSE <<n \div g, d \div g>>
FracAdd(x, y) == Frac(x[1] * y[2] + y[1] * x[2], x[2] * y[2])
FracOfInt(n) == <<n, 1>>

\* +(x).toFixed(2) of an amount x given in millionths
ToFixed2(x) == ((x + 5000) \div 10000) * 10000

\* n / d rounded to the nearest integer, halves up (toFixed(4) of a quotient
\* whose result is counted in ten-thousandths)
RoundDiv(n, d) == IF 2 * (n % d) >= d THEN (n \div d) + 1 ELSE n \div d

\* ------------------------------------------------------------- sequences
Range(s) == {s[i] : i \in 1..Len(s)}

\* the order of the book whose identity is r
Deref(book, r) == CHOOSE o \in Range(book) : o.ref = r

\* the book with the object r replaced by its new contents o
Store(book, r, o) == [i \in 1..Len(book) |-> IF book[i].ref = r THEN o ELSE book[i]]

\* the identities of the objects of a book, in array order
Refs(book) == [i \in 1..Len(book) |-> book[i].ref]

\* the book as it rests between two requests: every object at its index
Settle(book) == [i \in 1..Len(book) |-> [book[i] EXCEPT !.ref = i]]

\* ------------------------------------------------------------------ orders
\* the comparator of sortOrders: negative when a goes before b
compare(a, b, orderType) ==
    IF orderType = "sell" THEN a.price - b.price ELSE b.price - a.price

\* insertSorted that puts o in front of the elements it ties with
RECURSIVE insertSortedBeforeEqual(_, _, _)
insertSortedBeforeEqual(sorted, o, orderType) ==
    IF sorted = <<>> THEN <<o>>
    ELSE IF compare(sorted[Len(sorted)], o, orderType) < 0 THEN Append(sorted, o)
    ELSE Append(insertSortedBeforeEqual(SubSeq(sorted, 1, Len(sorted) - 1), o, orderType),
                sorted[Len(sorted)])

\* Array.prototype.sort is stable: o goes behind every element it does not
\* strictly precede
RECURSIVE insertSorted(_, _, _)
insertSorted(sorted, o, orderType) ==
    IF sorted = <<>> THEN <<o>>
    ELSE IF compare(sorted[Len(sorted)], o, orderType) <= 0 THEN Append(sorted, o)
    ELSE Append(insertSorted(SubSeq(sorted, 1, Len(sorted) - 1), o, orderType),
                sorted[Len(sorted)])

RECURSIVE sortBy(_, _)
sortBy(s, orderType) ==
    IF s = <<>> THEN <<>>
    ELSE insertSorted(sortBy(SubSeq(s, 1, Len(s) - 1), orderType), s[Len(s)], orderType)

\* sortOrders that filters by type and forgets to sort
sortOrdersUnsorted(orders, orderType) ==
    SelectSeq(orders, LAMBDA order : order.type = orderType)

sortOrders(orders, orderType) ==
    sortBy(SelectSeq(orders, LAMBDA order : order.type = orderType), orderType)

updateSortedOrders(book, orderType) ==
    IF orderType = "buy"
    THEN sortOrders(book, "buy") \o SelectSeq(book, LAMBDA order : order.type # "buy")
    ELSE SelectSeq(book, LAMBDA order : order.type # "sell") \o sortOrders(book, "sell")

\* orderBook.filter(o => o.status !== 'executed')
removeExecuted(book) == SelectSeq(book, LAMBDA o : o.status # "executed")

\* consume that reopens an order which was already partial
consumeReopens(order, executedShares) ==
    LET shares == order.shares - executedShares IN
    [order EXCEPT !.shares = shares,
                  !.amount = ToFixed2(shares * order.price),
                  !.status = IF shares = 0 THEN "executed"
                             ELSE IF order.status = "partial" THEN "open"
                             ELSE "partial"]

\* the update of a resting order that a loop has taken executedShares from
consume(order, executedShares) ==
    LET shares == order.shares - executedShares IN
    [order EXCEPT !.shares = shares,
                  !.amount = ToFixed2(shares * order.price),
                  !.status = IF shares = 0 THEN "executed" ELSE "partial"]

\* --------------------------------------------------------- limit matching
\* matchBuyStep that takes all of the candidate, without the Math.min against
\* what the incoming order still wants
matchBuyStepNoMin(acc, cand) ==
    LET sellOrder      == Deref(acc.book, cand.ref)
        executedShares == sellOrder.shares
        tradeCost      == executedShares * sellOrder.price
    IN  [book            |-> Store(acc.book, cand.ref, consume(sellOrder, executedShares)),
         remainingShares |-> acc.remainingShares - executedShares,
         total           |-> acc.total + tradeCost,
         executedTrades  |-> Append(acc.executedTrades,
                                [sellOrderId    |-> sellOrder.id,
                                 executedShares |-> executedShares,
                                 price          |-> sellOrder.price,
                                 tradeCost      |-> tradeCost,
                                 ref            |-> sellOrder.ref])]

\* one iteration of the for loop of matchLimitBuyOrder, on the candidate cand
matchBuyStep(acc, cand) ==
    LET sellOrder      == Deref(acc.book, cand.ref)
        availableShares == sellOrder.shares
        executedShares == Min(acc.remainingShares, availableShares)
        tradeCost      == executedShares * sellOrder.price
    IN  [book            |-> Store(acc.book, cand.ref, consume(sellOrder, executedShares)),
         remainingShares |-> acc.remainingShares - executedShares,
         total           |-> acc.total + tradeCost,
         executedTrades  |-> Append(acc.executedTrades,
                                [sellOrderId    |-> sellOrder.id,
                                 executedShares |-> executedShares,
                                 price          |-> sellOrder.price,
                                 tradeCost      |-> tradeCost,
                                 ref            |-> sellOrder.ref])]

RECURSIVE matchBuyLoop(_, _)
matchBuyLoop(acc, cands) ==
    IF cands = <<>> \/ acc.remainingShares <= 0 THEN acc
    ELSE matchBuyLoop(matchBuyStep(acc, Head(cands)), Tail(cands))

\* matchingSellOrders that forgets the asset in its filter
matchingSellOrdersAnyAsset(book, newBuy) ==
    sortBy(SelectSeq(book, LAMBDA o : o.type = "sell" /\ o.price <= newBuy.price), "sell")

\* the resting sell orders an incoming buy may trade with, best price first
matchingSellOrders(book, newBuy) ==
    sortBy(SelectSeq(book, LAMBDA o : o.type = "sell" /\ o.asset = newBuy.asset
                                      /\ o.price <= newBuy.price),
           "sell")

\* +averagePrice.toFixed(4), in ten-thousandths: 100 * total / executedSharesTotal
\* rounded, with the whole part taken out first to keep the products small
average(total, executedSharesTotal) ==
    IF executedSharesTotal > 0
    THEN 100 * (total \div executedSharesTotal)
         + RoundDiv(100 * (total % executedSharesTotal), executedSharesTotal)
    ELSE 0

\* returns the book with the consumed orders updated in place (nothing is
\* removed here) and the result object; remainingOrder is <<>> for null
matchLimitBuyOrder(book, newBuy) ==
    LET end == matchBuyLoop([book |-> book, remainingShares |-> newBuy.shares,
                             total |-> 0, executedTrades |-> <<>>],
                            matchingSellOrders(book, newBuy))
        remainingShares     == end.remainingShares
        executedSharesTotal == newBuy.shares - remainingShares
    IN  [book   |-> end.book,
         result |-> [newOrderId     |-> newBuy.id,
                     executedShares |-> executedSharesTotal,
                     averagePrice   |-> average(end.total, executedSharesTotal),
                     trades         |-> end.executedTrades,
                     remainingOrder |->
                        IF remainingShares > 0
                        THEN <<[newBuy EXCEPT !.shares = remainingShares,
                                              !.amount = ToFixed2(remainingShares * newBuy.price),
                                              !.status = "partial"]>>
                        ELSE <<>>]]

\* one iteration of the for loop of matchLimitSellOrder
matchSellStep(acc, cand) ==
    LET buyOrder       == Deref(acc.book, cand.ref)
        availableShares == buyOrder.shares
        executedShares == Min(acc.remainingShares, availableShares)
        tradeRevenue   == executedShares * buyOrder.price
    IN  [book            |-> Store(acc.book, cand.ref, consume(buyOrder, executedShares)),
         remainingShares |-> acc.remainingShares - executedShares,
         total           |-> acc.total + tradeRevenue,
         executedTrades  |-> Append(acc.executedTrades,
                                [buyOrderId     |-> buyOrder.id,
                                 executedShares |-> executedShares,
                                 price          |-> buyOrder.price,
                                 tradeRevenue   |-> tradeRevenue,
                                 ref            |-> buyOrder.ref])]

RECURSIVE matchSellLoop(_, _)
matchSellLoop(acc, cands) ==
    IF cands = <<>> \/ acc.remainingShares <= 0 THEN acc
    ELSE matchSellLoop(matchSellStep(acc, Head(cands)), Tail(cands))

\* matchingBuyOrders that puts the lowest bid first
matchingBuyOrdersWorstFirst(book, newSell) ==
    sortBy(SelectSeq(book, LAMBDA o : o.type = "buy" /\ o.asset = newSell.asset
                                      /\ o.price >= newSell.price),
           "sell")

\* the resting buy orders an incoming sell may trade with, best price first
matchingBuyOrders(book, newSell) ==
    sortBy(SelectSeq(book, LAMBDA o : o.type = "buy" /\ o.asset = newSell.asset
                                      /\ o.price >= newSell.price),
           "buy")

matchLimitSellOrder(book, newSell) ==
    LET end == matchSellLoop([book |-> book, remainingShares |-> newSell.shares,
                              total |-> 0, executedTrades |-> <<>>],
                             matchingBuyOrders(book, newSell))
        remainingShares     == end.remainingShares
        executedSharesTotal == newSell.shares - remainingShares
        amount              == ToFixed2(remainingShares * newSell.price)
    IN  [book   |-> end.book,
         result |-> [newOrderId     |-> newSell.id,
                     executedShares |-> executedSharesTotal,
                     averagePrice   |-> average(end.total, executedSharesTotal),
                     trades         |-> end.executedTrades,
                     remainingOrder |->
                        IF remainingShares > 0
                        THEN <<[newSell EXCEPT !.shares = remainingShares,
                                               !.amount = amount,
                                               !.potentialGain = amount,
                                               !.status = "partial"]>>
                        ELSE <<>>]]

\* ------------------------------------------------------------- market buy
\* one iteration of the for loop of executeMarketBuyHype / executeMarketBuyFlop
marketBuyStep(acc, order) ==
    LET tradableAmount == Min(order.amount, acc.remainingAmount) IN
    [remainingAmount |-> acc.remainingAmount - tradableAmount,
     totalShares     |-> FracAdd(acc.totalShares, Frac(tradableAmount, order.price)),
     priceFinal      |-> order.price]

RECURSIVE marketBuyLoop(_, _)
marketBuyLoop(acc, sellOrders) ==
    IF sellOrders = <<>> \/ acc.remainingAmount <= 0 THEN acc
    ELSE marketBuyLoop(marketBuyStep(acc, Head(sellOrders)), Tail(sellOrders))

\* the direct sweep of the sell orders of asset; the book is only read
executeMarketBuy(book, asset, amount) ==
    LET sellOrders == SelectSeq(sortOrders(book, "sell"), LAMBDA order : order.asset = asset)
        end == marketBuyLoop([remainingAmount |-> amount, totalShares |-> FracOfInt(0),
                              priceFinal |-> 0], sellOrders)
    IN  IF end.remainingAmount > 0
        THEN [error |-> "Not enough liquidity to execute the market buy."]
        ELSE [totalShares |-> end.totalShares,
              priceFinal  |-> end.priceFinal,
              priceImpact |-> end.priceFinal -
                              (IF sellOrders # <<>> THEN sellOrders[1].price
                                                    ELSE end.priceFinal)]

executeMarketBuyHype(book, amount) == executeMarketBuy(book, "HYPE", amount)
executeMarketBuyFlop(book, amount) == executeMarketBuy(book, "FLOP", amount)

\* one iteration of the for loop of executeFlopBuyImpact / executeHypeBuyImpact;
\* amount / 0 is Infinity, which no share count reaches
buyImpactStep(acc, order, amount) ==
    LET priceOposto == 100 - order.price IN
    IF priceOposto > 0 /\ order.shares * priceOposto >= amount
    THEN [remainingAmount |-> 0,
          totalShares     |-> FracAdd(acc.totalShares, Frac(amount, priceOposto)),
          priceFinal      |-> priceOposto,
          break           |-> TRUE]
    ELSE [remainingAmount |-> acc.remainingAmount - order.shares * priceOposto,
          totalShares     |-> FracAdd(acc.totalShares, FracOfInt(order.shares)),
          priceFinal      |-> acc.priceFinal,
          break           |-> FALSE]

RECURSIVE buyImpactLoop(_, _, _)
buyImpactLoop(acc, buyOrders, amount) ==
    IF buyOrders = <<>> \/ acc.break THEN acc
    ELSE buyImpactLoop(buyImpactStep(acc, Head(buyOrders), amount), Tail(buyOrders), amount)

\* the cross-hedge over the buy orders of asset (the complement of the asset
\* being bought); the book is only read
executeBuyImpact(book, asset, amount) ==
    LET buyOrders == SelectSeq(sortOrders(book, "buy"), LAMBDA order : order.asset = asset)
        end == buyImpactLoop([remainingAmount |-> amount, totalShares |-> FracOfInt(0),
                              priceFinal |-> 0, break |-> FALSE], buyOrders, amount)
    IN  IF end.remainingAmount > 0
        THEN [error |-> "Not enough liquidity in " \o asset \o " to execute the market buy."]
        ELSE [totalShares |-> end.totalShares, priceFinal |-> end.priceFinal]

executeFlopBuyImpact(book, amount) == executeBuyImpact(book, "FLOP", amount)
executeHypeBuyImpact(book, amount) == executeBuyImpact(book, "HYPE", amount)

\* result.error is truthy
isError(result) == "error" \in DOMAIN result

\* priceFinalLeq with the comparison turned round
priceFinalGeq(a, b) ==
    /\ "priceFinal" \in DOMAIN a
    /\ "priceFinal" \in DOMAIN b
    /\ a.priceFinal >= b.priceFinal

\* a.priceFinal <= b.priceFinal; a comparison with undefined is false
priceFinalLeq(a, b) ==
    /\ "priceFinal" \in DOMAIN a
    /\ "priceFinal" \in DOMAIN b
    /\ a.priceFinal <= b.priceFinal

\* the response of /market-buy-hype and /market-buy-flop from the result of
\* the direct sweep and of the cross-hedge
marketBuyResponse(direct, cross) ==
    IF isError(direct) /\ isError(cross)
    THEN [code |-> 400, body |-> [error |-> "Not enough liquidity to execute the market buy."]]
    ELSE [code |-> 201, body |-> IF priceFinalLeq(direct, cross) THEN direct ELSE cross]

\* ------------------------------------------------------------ market sell
\* marketSellStep that records the trade and leaves the buy order as it was
marketSellStepNoConsume(acc, cand) ==
    LET order          == Deref(acc.book, cand.ref)
        availableShares == order.shares
        executedShares == Min(acc.remainingShares, availableShares)
        tradeRevenue   == executedShares * order.price
    IN  [book            |-> acc.book,
         remainingShares |-> acc.remainingShares - executedShares,
         total           |-> acc.total + tradeRevenue,
         executedTrades  |-> Append(acc.executedTrades,
                                [buyOrderId     |-> order.id,
                                 executedShares |-> executedShares,
                                 price          |-> order.price,
                                 tradeRevenue   |-> tradeRevenue,
                                 ref            |-> order.ref])]

\* one iteration of the for loop of executeMarketSellHype / executeMarketSellFlop
marketSellStep(acc, cand) ==
    LET order          == Deref(acc.book, cand.ref)
        availableShares == order.shares
        executedShares == Min(acc.remainingShares, availableShares)
        tradeRevenue   == executedShares * order.price
    IN  [book            |-> Store(acc.book, cand.ref, consume(order, executedShares)),
         remainingShares |-> acc.remainingShares - executedShares,
         total           |-> acc.total + tradeRevenue,
         executedTrades  |-> Append(acc.executedTrades,
                                [buyOrderId     |-> order.id,
                                 executedShares |-> executedShares,
                                 price          |-> order.price,
                                 tradeRevenue   |-> tradeRevenue,
                                 ref            |-> order.ref])]

RECURSIVE marketSellLoop(_, _)
marketSellLoop(acc, buyOrders) ==
    IF buyOrders = <<>> \/ acc.remainingShares <= 0 THEN acc
    ELSE marketSellLoop(marketSellStep(acc, Head(buyOrders)), Tail(buyOrders))

\* executeMarketSell that sweeps the buy orders of both assets
executeMarketSellAnyAsset(book, asset, shares) ==
    LET buyOrders == sortOrders(book, "buy")
        end == marketSellLoop([book |-> book, remainingShares |-> shares,
                               total |-> 0, executedTrades |-> <<>>], buyOrders)
        executedSharesTotal == shares - end.remainingShares
    IN  [book   |-> end.book,
         result |-> IF end.remainingShares > 0
                    THEN [error |-> "Not enough liquidity to execute the market sell."]
                    ELSE [executedShares |-> executedSharesTotal,
                          totalRevenue   |-> end.total,
                          averagePrice   |-> average(end.total, executedSharesTotal),
                          trades         |-> end.executedTrades]]

\* returns the book with the consumed orders updated in place and the result
executeMarketSell(book, asset, shares) ==
    LET buyOrders == SelectSeq(sortOrders(book, "buy"), LAMBDA order : order.asset = asset)
        end == marketSellLoop([book |-> book, remainingShares |-> shares,
                               total |-> 0, executedTrades |-> <<>>], buyOrders)
        executedSharesTotal == shares - end.remainingShares
    IN  [book   |-> end.book,
         result |-> IF end.remainingShares > 0
                    THEN [error |-> "Not enough liquidity to execute the market sell."]
                    ELSE [executedShares |-> executedSharesTotal,
                          totalRevenue   |-> end.total,
                          averagePrice   |-> average(end.total, executedSharesTotal),
                          trades         |-> end.executedTrades]]

executeMarketSellHype(book, shares) == executeMarketSell(book, "HYPE", shares)
executeMarketSellFlop(book, shares) == executeMarketSell(book, "FLOP", shares)

\* ----------------------------------------------------------------- routes
Init ==
    /\ orderBook = <<>>
    /\ clock = 0
    /\ created = 0
    /\ prevBook = <<>>
    /\ last = [op |-> "none", asset |-> "HYPE", price |-> 0, qty |-> 0,
               code |-> 0, body |-> [none |-> TRUE], origin |-> <<>>]

priceRejected(price) == price <= 0 \/ price > 100

\* buyOutcome that puts the incoming order itself, not its remainder, into
\* the book after a match
buyOutcomeKeepsOrder(book, newOrder) ==
    IF \E i \in 1..Len(book) : /\ book[i].type = "sell"
                               /\ book[i].asset = newOrder.asset
                               /\ book[i].price <= newOrder.price
    THEN LET m    == matchLimitBuyOrder(book, newOrder)
             kept == removeExecuted(m.book)
         IN  [book |-> IF m.result.remainingOrder # <<>>
                       THEN updateSortedOrders(Append(kept, newOrder), "buy")
                       ELSE kept,
              body |-> m.result]
    ELSE [book |-> updateSortedOrders(Append(book, newOrder), "buy"),
          body |-> newOrder]

\* the book and the response of POST /buy for a valid price
buyOutcome(book, newOrder) ==
    IF \E i \in 1..Len(book) : /\ book[i].type = "sell"
                               /\ book[i].asset = newOrder.asset
                               /\ book[i].price <= newOrder.price
    THEN LET m    == matchLimitBuyOrder(book, newOrder)
             kept == removeExecuted(m.book)
         IN  [book |-> IF m.result.remainingOrder # <<>>
                       THEN updateSortedOrders(kept \o m.result.remainingOrder, "buy")
                       ELSE kept,
              body |-> m.result]
    ELSE [book |-> updateSortedOrders(Append(book, newOrder), "buy"),
          body |-> newOrder]

\* POST /buy
PostBuy(asset, price, amount, elapsed) ==
    /\ prevBook' = orderBook
    /\ IF priceRejected(price)
       THEN /\ last' = [op |-> "buy", asset |-> asset, price |-> price, qty |-> amount,
                        code |-> 400,
                        body |-> [error |-> "Price must be between 0 and 1 in increments of 0.01."],
                        origin |-> Refs(orderBook)]
            /\ UNCHANGED <<orderBook, clock, created>>
       ELSE /\ created < MaxOrders
            /\ LET newOrder == [ref |-> 0, id |-> clock + elapsed, type |-> "buy",
                                asset |-> asset, price |-> price, amount |-> amount,
                                shares |-> RoundDiv(amount, price), status |-> "open"]
                   out == buyOutcome(orderBook, newOrder)
               IN  /\ orderBook' = Settle(out.book)
                   /\ last' = [op |-> "buy", asset |-> asset, price |-> price,
                               qty |-> amount, code |-> 201, body |-> out.body,
                               origin |-> Refs(out.book)]
            /\ created' = created + 1
            /\ clock' = clock + elapsed

\* sellOutcome that rests the incoming order without looking for a match
sellOutcomeNoMatch(book, newOrder) ==
    [book |-> updateSortedOrders(Append(book, newOrder), "sell"),
     body |-> newOrder]

\* the book and the response of POST /sell for a valid price
sellOutcome(book, newOrder) ==
    IF \E i \in 1..Len(book) : /\ book[i].type = "buy"
                               /\ book[i].asset = newOrder.asset
                               /\ book[i].price >= newOrder.price
    THEN LET m    == matchLimitSellOrder(book, newOrder)
             kept == removeExecuted(m.book)
         IN  [book |-> IF m.result.remainingOrder # <<>>
                       THEN updateSortedOrders(kept \o m.result.remainingOrder, "sell")
                       ELSE kept,
              body |-> m.result]
    ELSE [book |-> updateSortedOrders(Append(book, newOrder), "sell"),
          body |-> newOrder]

\* POST /sell
PostSell(asset, price, shares, elapsed) ==
    /\ prevBook' = orderBook
    /\ IF priceRejected(price)
       THEN /\ last' = [op |-> "sell", asset |-> asset, price |-> price, qty |-> shares,
                        code |-> 400,
                        body |-> [error |-> "Price must be between 0 and 1 in increments of 0.01."],
                        origin |-> Refs(orderBook)]
            /\ UNCHANGED <<orderBook, clock, created>>
       ELSE /\ created < MaxOrders
            /\ LET potentialGain == ToFixed2(shares * price)
                   newOrder == [ref |-> 0, id |-> clock + elapsed, type |-> "sell",
                                asset |-> asset, price |-> price, amount |-> potentialGain,
                                shares |-> shares, potentialGain |-> potentialGain,
                                status |-> "open"]
                   out == sellOutcome(orderBook, newOrder)
               IN  /\ orderBook' = Settle(out.book)
                   /\ last' = [op |-> "sell", asset |-> asset, price |-> price,
                               qty |-> shares, code |-> 201, body |-> out.body,
                               origin |-> Refs(out.book)]
            /\ created' = created + 1
            /\ clock' = clock + elapsed

\* POST /market-buy-hype
PostMarketBuyHype(amount) ==
    LET hypeResult == executeMarketBuyHype(orderBook, amount)
        flopResult == executeFlopBuyImpact(orderBook, amount)
        response   == marketBuyResponse(hypeResult, flopResult)
    IN  /\ prevBook' = orderBook
        /\ last' = [op |-> "marketBuy", asset |-> "HYPE", price |-> 0, qty |-> amount,
                    code |-> response.code, body |-> response.body,
                    origin |-> Refs(orderBook)]
        /\ UNCHANGED <<orderBook, clock, created>>

\* POST /market-buy-flop
PostMarketBuyFlop(amount) ==
    LET flopResult == executeMarketBuyFlop(orderBook, amount)
        hypeResult == executeHypeBuyImpact(orderBook, amount)
        response   == marketBuyResponse(flopResult, hypeResult)
    IN  /\ prevBook' = orderBook
        /\ last' = [op |-> "marketBuy", asset |-> "FLOP", price |-> 0, qty |-> amount,
                    code |-> response.code, body |-> response.body,
                    origin |-> Refs(orderBook)]
        /\ UNCHANGED <<orderBook, clock, created>>

\* the book and the response of /market-sell-hype and /market-sell-flop from
\* what executeMarketSellHype / executeMarketSellFlop returned
marketSellResponse(r) ==
    IF isError(r.result)
    THEN [book |-> r.book, code |-> 400, body |-> r.result]
    ELSE [book |-> removeExecuted(r.book), code |-> 201, body |-> r.result]

\* POST /market-sell-hype
PostMarketSellHype(shares) ==
    LET response == marketSellResponse(executeMarketSellHype(orderBook, shares)) IN
    /\ prevBook' = orderBook
    /\ orderBook' = Settle(response.book)
    /\ last' = [op |-> "marketSell", asset |-> "HYPE", price |-> 0, qty |-> shares,
                code |-> response.code, body |-> response.body,
                origin |-> Refs(response.book)]
    /\ UNCHANGED <<clock, created>>

\* POST /market-sell-flop
PostMarketSellFlop(shares) ==
    LET response == marketSellResponse(executeMarketSellFlop(orderBook, shares)) IN
    /\ prevBook' = orderBook
    /\ orderBook' = Settle(response.book)
    /\ last' = [op |-> "marketSell", asset |-> "FLOP", price |-> 0, qty |-> shares,
                code |-> response.code, body |-> response.body,
                origin |-> Refs(response.book)]
    /\ UNCHANGED <<clock, created>>

\* the requests the server may receive, the clock having advanced by one of
\* elapsed since the last placement
Requests(elapsed) ==
    \/ \E asset \in Assets, price \in PriceInputs, amount \in NotionalInputs, e \in elapsed :
          PostBuy(asset, price, amount, e)
    \/ \E asset \in Assets, price \in PriceInputs, shares \in ShareInputs, e \in elapsed :
          PostSell(asset, price, shares, e)
    \/ \E amount \in BudgetInputs : PostMarketBuyHype(amount)
    \/ \E amount \in BudgetInputs : PostMarketBuyFlop(amount)
    \/ \E shares \in SellInputs : PostMarketSellHype(shares)
    \/ \E shares \in SellInputs : PostMarketSellFlop(shares)

\* The id of an order is only copied into responses and never read by the
\* matching, so the claims about matching are checked with placements that
\* arrive in distinct milliseconds.
Next == Requests(Elapsed)

Spec == Init /\ [][Next]_vars

\* Date.now() counts whole milliseconds and the server answers a request in
\* less than one: a placement may be served in the millisecond of the one
\* before it.
ElapsedOrNone == {0, 1}

\* the requests with the clock free to stand still, at one price and one
\* size per kind of request
NextSameTick ==
    \/ \E asset \in Assets, e \in ElapsedOrNone : PostBuy(asset, 30, 3000000, e)
    \/ \E asset \in Assets, e \in ElapsedOrNone : PostSell(asset, 30, 100000, e)
    \/ PostMarketBuyHype(3000000)
    \/ PostMarketBuyFlop(3000000)
    \/ \E shares \in SellInputs : PostMarketSellHype(shares)
    \/ \E shares \in SellInputs : PostMarketSellFlop(shares)

SpecSameTick == Init /\ [][NextSameTick]_vars

\* ================================================================= claims
\* what the last request was
Placed     == last.op \in {"buy", "sell"} /\ last.code = 201
Matched    == Placed /\ "trades" \in DOMAIN last.body
MarketBuy  == last.op = "marketBuy"
MarketSell == last.op = "marketSell"
other(asset) == IF asset = "HYPE" THEN "FLOP" ELSE "HYPE"

\* the place in orderBook of the object that was prevBook[r], 0 if it is gone
Place(r) == IF \E j \in 1..Len(last.origin) : last.origin[j] = r
            THEN CHOOSE j \in 1..Len(last.origin) : last.origin[j] = r
            ELSE 0

\* C1: after any request has returned, the Book holds no order whose status
\* is executed.
C1_NoExecutedOrderInBook ==
    \A i \in 1..Len(orderBook) : orderBook[i].status # "executed"

\* C2: a market buy or market sell that failed for lack of liquidity left the
\* Book exactly as it was.
C2_FailedMarketOrderLeavesBook ==
    (MarketBuy \/ MarketSell) /\ isError(last.body) => orderBook = prevBook

\* the two results a market buy chooses between, recomputed on the book the
\* request found
directResult == executeMarketBuy(prevBook, last.asset, last.qty)
crossResult  == executeBuyImpact(prevBook, other(last.asset), last.qty)

\* C3: for a market buy, when exactly one of the direct sweep and the
\* cross-hedge reports an error the response is the successful result of the
\* other, and the request fails only when both report an error.
C3_MarketBuyUsesTheSuccessfulSide ==
    MarketBuy =>
        /\ isError(directResult) /\ ~isError(crossResult)
              => last.code = 201 /\ last.body = crossResult
        /\ ~isError(directResult) /\ isError(crossResult)
              => last.code = 201 /\ last.body = directResult
        /\ last.code = 400 <=> isError(directResult) /\ isError(crossResult)

\* the notional a direct sweep with the given budget takes from each sell
\* order, in sweep order
RECURSIVE sweepTaken(_, _)
sweepTaken(sellOrders, budget) ==
    IF sellOrders = <<>> THEN <<>>
    ELSE LET taken == Min(Head(sellOrders).amount, budget) IN
         <<[ref |-> Head(sellOrders).ref, taken |-> taken]>>
            \o sweepTaken(Tail(sellOrders), budget - taken)

FilledByDirectSweep ==
    MarketBuy /\ last.code = 201 /\ ~isError(directResult) /\ last.body = directResult

\* C4: a market buy filled by the direct sweep consumes the sell orders it
\* used: one whose notional was taken in full is evicted, one taken in part
\* rests as partial with its notional and shares reduced.
C4_DirectSweepConsumesSellOrders ==
    FilledByDirectSweep =>
        LET sellOrders == SelectSeq(sortOrders(prevBook, "sell"),
                                    LAMBDA order : order.asset = last.asset)
            used == sweepTaken(sellOrders, last.qty)
        IN  \A k \in 1..Len(used) :
                LET before == prevBook[used[k].ref]
                    j      == Place(used[k].ref)
                IN  /\ used[k].taken > 0 /\ used[k].taken = before.amount => j = 0
                    /\ used[k].taken > 0 /\ used[k].taken < before.amount =>
                          /\ j # 0
                          /\ orderBook[j].status = "partial"
                          /\ orderBook[j].amount = before.amount - used[k].taken
                          /\ orderBook[j].shares < before.shares

\* what a cross-hedge with the given budget takes from each buy order of the
\* complementary asset, the shares required being computed from the budget
\* that remains: all of an order that cannot cover it, and from the order
\* that covers it the value that remains
RECURSIVE hedgeTaken(_, _)
hedgeTaken(buyOrders, budget) ==
    IF buyOrders = <<>> THEN <<>>
    ELSE LET order == Head(buyOrders)
             synth == 100 - order.price
         IN  IF synth > 0 /\ order.shares * synth >= budget
             THEN <<[ref |-> order.ref, all |-> FALSE, value |-> budget]>>
             ELSE <<[ref |-> order.ref, all |-> TRUE, value |-> order.shares * synth]>>
                     \o hedgeTaken(Tail(buyOrders), budget - order.shares * synth)

FilledByCrossHedge ==
    MarketBuy /\ last.code = 201 /\ ~isError(crossResult) /\ last.body = crossResult

\* C5: a market buy resolved through the cross-hedge decrements the buy
\* orders of the complementary asset it used: one consumed in full is evicted,
\* and the one that covers the remaining budget loses the required shares and
\* is partial (evicted if it reaches zero).
C5_CrossHedgeConsumesBuyOrders ==
    FilledByCrossHedge =>
        LET buyOrders == SelectSeq(sortOrders(prevBook, "buy"),
                                   LAMBDA order : order.asset = other(last.asset))
            used == hedgeTaken(buyOrders, last.qty)
        IN  \A k \in 1..Len(used) :
                LET before == prevBook[used[k].ref]
                    synth  == 100 - before.price
                    j      == Place(used[k].ref)
                IN  IF used[k].all \/ before.shares * synth = used[k].value
                    THEN j = 0
                    ELSE /\ j # 0
                         /\ orderBook[j].status = "partial"
                         /\ orderBook[j].shares * synth
                               = before.shares * synth - used[k].value

\* C6: in every reachable Book the sell orders are in non-decreasing order of
\* price and the buy orders in non-increasing order of price.
C6_BookSortedBySide ==
    \A i, j \in 1..Len(orderBook) :
        i < j /\ orderBook[i].type = orderBook[j].type =>
            IF orderBook[i].type = "sell"
            THEN orderBook[i].price <= orderBook[j].price
            ELSE orderBook[i].price >= orderBook[j].price

\* a placement whose new order was sorted in ahead of a resting order of its
\* side with a worse price
C6_Witness ==
    /\ Placed
    /\ \E i, j \in 1..Len(orderBook) :
          /\ i < j
          /\ last.origin[i] = 0 /\ last.origin[j] # 0
          /\ orderBook[i].type = orderBook[j].type
          /\ orderBook[i].price # orderBook[j].price

\* C7: every order in the Book has shares >= 0, and has zero shares exactly
\* when its status is executed.
C7_ZeroSharesIffExecuted ==
    \A i \in 1..Len(orderBook) :
        /\ orderBook[i].shares >= 0
        /\ orderBook[i].shares = 0 <=> orderBook[i].status = "executed"

\* C8: every order in the Book has notional = round(shares * price, 2).
C8_NotionalIsSharesTimesPrice ==
    \A i \in 1..Len(orderBook) :
        orderBook[i].amount = ToFixed2(orderBook[i].shares * orderBook[i].price)

RECURSIVE SumExecutedShares(_)
SumExecutedShares(trades) ==
    IF trades = <<>> THEN 0
    ELSE Head(trades).executedShares + SumExecutedShares(Tail(trades))

\* the shares the incoming limit order of the last request asked for
OriginalShares ==
    IF last.op = "buy" THEN RoundDiv(last.qty, last.price) ELSE last.qty

\* C9: in a limit match the executedShares of the trades add up to the
\* executedShares of the result, which is at most the incoming order's
\* original shares, and each counter-order has lost exactly the executedShares
\* of its trade.
C9_LimitMatchConservesShares ==
    Matched =>
        LET trades == last.body.trades IN
        /\ SumExecutedShares(trades) = last.body.executedShares
        /\ last.body.executedShares <= OriginalShares
        /\ \A k \in 1..Len(trades) :
              LET before == prevBook[trades[k].ref]
                  j      == Place(trades[k].ref)
              IN  /\ \A m \in 1..Len(trades) : trades[m].ref = trades[k].ref => m = k
                  /\ IF j = 0 THEN before.shares = trades[k].executedShares
                     ELSE orderBook[j].shares = before.shares - trades[k].executedShares

\* a limit match of two trades, one that used up its counter-order and one
\* that left its counter-order resting
C9_Witness ==
    /\ Matched
    /\ Len(last.body.trades) >= 2
    /\ \A k \in 1..Len(last.body.trades) : last.body.trades[k].executedShares > 0
    /\ \E k \in 1..Len(last.body.trades) : Place(last.body.trades[k].ref) = 0
    /\ \E k \in 1..Len(last.body.trades) : Place(last.body.trades[k].ref) # 0

\* C10: every trade of a limit match is with a resting order of the opposite
\* side and the same asset, at that order's price, which is no worse than
\* the incoming limit.
C10_TradesAtCompatibleRestingPrice ==
    Matched =>
        \A k \in 1..Len(last.body.trades) :
            LET trade   == last.body.trades[k]
                resting == prevBook[trade.ref]
            IN  /\ resting.asset = last.asset
                /\ trade.price = resting.price
                /\ IF last.op = "buy"
                   THEN /\ resting.type = "sell"
                        /\ trade.sellOrderId = resting.id
                        /\ trade.price <= last.price
                   ELSE /\ resting.type = "buy"
                        /\ trade.buyOrderId = resting.id
                        /\ trade.price >= last.price

\* an incoming buy that traded below its limit
C10_Witness ==
    /\ Matched
    /\ last.op = "buy"
    /\ \E k \in 1..Len(last.body.trades) :
          /\ last.body.trades[k].executedShares > 0
          /\ last.body.trades[k].price < last.price


\* the resting order o may trade with the incoming limit order of the last
\* request: opposite side, same asset, price no worse than the limit
Compatible(o) ==
    /\ o.asset = last.asset
    /\ IF last.op = "buy" THEN o.type = "sell" /\ o.price <= last.price
                          ELSE o.type = "buy" /\ o.price >= last.price

\* the places of orderBook that hold the order the last request created
NewPlaces == {j \in 1..Len(last.origin) : last.origin[j] = 0}

\* C11: after a limit placement that crossed the book, an incoming order that
\* was filled completely is not in the Book and the remainder of the result
\* is null; otherwise exactly one new order is in the Book, with the unfilled
\* shares, notional round(shares * price, 2) and status partial, and every
\* compatible counter-order has been consumed in full.
C11_RemainderOfLimitMatch ==
    Matched =>
        LET unfilled == OriginalShares - last.body.executedShares IN
        IF unfilled = 0
        THEN /\ last.body.remainingOrder = <<>>
             /\ NewPlaces = {}
        ELSE /\ Len(last.body.remainingOrder) = 1
             /\ Cardinality(NewPlaces) = 1
             /\ \A j \in NewPlaces :
                   /\ orderBook[j].type = last.op
                   /\ orderBook[j].asset = last.asset
                   /\ orderBook[j].price = last.price
                   /\ orderBook[j].shares = unfilled
                   /\ orderBook[j].amount = ToFixed2(unfilled * last.price)
                   /\ orderBook[j].status = "partial"
             /\ \A r \in 1..Len(prevBook) : Compatible(prevBook[r]) => Place(r) = 0

\* a limit buy that took all of a resting sell order and rests with what it
\* could not buy
C11_Witness ==
    /\ Matched
    /\ last.op = "buy"
    /\ last.body.executedShares > 0
    /\ last.body.executedShares < OriginalShares
    /\ NewPlaces # {}

RECURSIVE SumShares(_)
SumShares(orders) ==
    IF orders = <<>> THEN 0 ELSE Head(orders).shares + SumShares(Tail(orders))

\* the buy orders of an asset in a book
BuysOf(book, asset) == SelectSeq(book, LAMBDA o : o.type = "buy" /\ o.asset = asset)

\* C12: a market sell fails for lack of liquidity exactly when the shares
\* requested exceed the total shares of the resting buy orders of its asset.
C12_MarketSellFailsIffTooFewShares ==
    MarketSell =>
        /\ isError(last.body) <=> last.qty > SumShares(BuysOf(prevBook, last.asset))
        /\ last.code = 400 <=> isError(last.body)

\* a market sell that failed although the buy orders of the other asset
\* alone held enough shares
C12_Witness ==
    /\ MarketSell
    /\ isError(last.body)
    /\ SumShares(BuysOf(prevBook, last.asset)) > 0
    /\ SumShares(BuysOf(prevBook, other(last.asset))) >= last.qty


\* the last request was a market sell that succeeded
MarketSold == MarketSell /\ ~isError(last.body)

\* sum over the trades of executedShares times the price of the resting
\* order the trade consumed
RECURSIVE RevenueOf(_)
RevenueOf(trades) ==
    IF trades = <<>> THEN 0
    ELSE Head(trades).executedShares * prevBook[Head(trades).ref].price
         + RevenueOf(Tail(trades))

\* C13: a successful market sell executes exactly the requested shares, its
\* totalRevenue is the sum over the trades of executedShares times the
\* resting order's price, the buy orders of the asset lose exactly the
\* requested shares in total, in descending price order, a fully consumed
\* order is evicted and a partly consumed one stays as partial.
C13_MarketSellSweepsBuyOrders ==
    MarketSold =>
        LET trades == last.body.trades IN
        /\ last.body.executedShares = last.qty
        /\ last.body.totalRevenue = RevenueOf(trades)
        /\ SumShares(BuysOf(prevBook, last.asset))
             - SumShares(BuysOf(orderBook, last.asset)) = last.qty
        /\ \A k \in 1..Len(trades) :
              LET before == prevBook[trades[k].ref] IN
              /\ before.type = "buy" /\ before.asset = last.asset
              /\ \A l \in 1..Len(trades) : l < k => trades[l].ref # trades[k].ref
              /\ trades[k].executedShares > 0 =>
                    \A r \in 1..Len(prevBook) :
                        (/\ prevBook[r].type = "buy"
                         /\ prevBook[r].asset = last.asset
                         /\ prevBook[r].price > before.price) => Place(r) = 0
              /\ IF trades[k].executedShares = before.shares
                 THEN Place(trades[k].ref) = 0
                 ELSE /\ Place(trades[k].ref) # 0
                      /\ orderBook[Place(trades[k].ref)].status = "partial"
                      /\ orderBook[Place(trades[k].ref)].shares
                            = before.shares - trades[k].executedShares

\* a market sell that took all of the best buy order and part of the next,
\* cheaper one
C13_Witness ==
    /\ MarketSold
    /\ Len(last.body.trades) = 2
    /\ last.body.trades[1].executedShares > 0
    /\ last.body.trades[2].executedShares > 0
    /\ last.body.trades[1].price > last.body.trades[2].price
    /\ Place(last.body.trades[1].ref) = 0
    /\ Place(last.body.trades[2].ref) # 0


\* the direct sweep and the cross-hedge of the last market buy both succeeded
BothSucceed == MarketBuy /\ ~isError(directResult) /\ ~isError(crossResult)

\* C14: when both the direct sweep and the cross-hedge succeed for a market
\* buy, the response is the one of the two results whose priceFinal is the
\* lower.
C14_MarketBuyPrefersLowerPrice ==
    BothSucceed =>
        /\ last.code = 201
        /\ last.body \in {directResult, crossResult}
        /\ last.body.priceFinal <= directResult.priceFinal
        /\ last.body.priceFinal <= crossResult.priceFinal

\* a market buy both sides could fill, answered with the cheaper cross-hedge
C14_Witness ==
    /\ BothSucceed
    /\ crossResult.priceFinal < directResult.priceFinal
    /\ last.body = crossResult


\* C15: every sell order in the Book has potentialGain equal to its current
\* notional (amount), at creation, after a partial fill while resting and as
\* an incoming remainder; buy orders carry no potentialGain.
C15_PotentialGainMirrorsNotional ==
    \A i \in 1..Len(orderBook) :
        IF orderBook[i].type = "sell"
        THEN /\ "potentialGain" \in DOMAIN orderBook[i]
             /\ orderBook[i].potentialGain = orderBook[i].amount
        ELSE "potentialGain" \notin DOMAIN orderBook[i]


\* the synthetic value of buy orders consumed in full: shares times
\* (1 - price)
RECURSIVE HedgeValue(_)
HedgeValue(orders) ==
    IF orders = <<>> THEN 0
    ELSE Head(orders).shares * (100 - Head(orders).price) + HedgeValue(Tail(orders))

\* the candidates of the cross-hedge of the last market buy, and the state of
\* its loop after the first k of them
HedgeCandidates ==
    SelectSeq(sortOrders(prevBook, "buy"), LAMBDA order : order.asset = other(last.asset))
HedgeAt(k) ==
    buyImpactLoop([remainingAmount |-> last.qty, totalShares |-> FracOfInt(0),
                   priceFinal |-> 0, break |-> FALSE],
                  SubSeq(HedgeCandidates, 1, k), last.qty)

\* C16: in a cross-hedge that succeeds the remaining budget never becomes
\* negative, the candidate that covers the budget gives the shares worth the
\* budget still remaining at that candidate (remaining / (1 - price)), so
\* that the consumed shares times (1 - price) add up to the budget and never
\* more, and totalShares is the sum of the shares consumed.
C16_CrossHedgeSpendsTheBudget ==
    MarketBuy /\ ~isError(crossResult) =>
        LET n == Len(HedgeCandidates) IN
        /\ \A k \in 1..n :
              /\ HedgeAt(k).remainingAmount >= 0
              /\ HedgeAt(k).break /\ ~HedgeAt(k - 1).break =>
                    HedgeAt(k).totalShares =
                        FracAdd(HedgeAt(k - 1).totalShares,
                                Frac(last.qty - HedgeValue(SubSeq(HedgeCandidates, 1, k - 1)),
                                     100 - HedgeCandidates[k].price))
        /\ ~HedgeAt(n).break => HedgeValue(HedgeCandidates) = last.qty
        /\ crossResult.totalShares = HedgeAt(n).totalShares


\* the resting orders (by their place in prevBook) that the loop of the last
\* request took up: the candidates a limit match traded with, the buy orders
\* a market sell swept, whether or not it succeeded in the end
SweptRefs ==
    LET buyOrders == SelectSeq(sortOrders(prevBook, "buy"),
                               LAMBDA order : order.asset = last.asset)
        end == marketSellLoop([book |-> prevBook, remainingShares |-> last.qty,
                               total |-> 0, executedTrades |-> <<>>], buyOrders)
    IN  {end.executedTrades[k].ref : k \in 1..Len(end.executedTrades)}
Touched(r) ==
    \/ Matched /\ \E k \in 1..Len(last.body.trades) : last.body.trades[k].ref = r
    \/ MarketSell /\ r \in SweptRefs

\* the status the order that was prevBook[r] has now; only executed orders
\* are evicted
StatusNow(r) == IF Place(r) = 0 THEN "executed" ELSE orderBook[Place(r)].status

\* C17: the status of an order changes only open -> partial,
\* partial -> executed or open -> executed, never backward, and only in a
\* request whose matching or sweep took up that order.
C17_StatusMovesForward ==
    \A r \in 1..Len(prevBook) :
        StatusNow(r) # prevBook[r].status =>
            /\ <<prevBook[r].status, StatusNow(r)>> \in
                  {<<"open", "partial">>, <<"partial", "executed">>, <<"open", "executed">>}
            /\ Touched(r)

\* a limit match that left an order which was open partly filled in the Book
C17_Witness ==
    /\ Matched
    /\ \E r \in 1..Len(prevBook) :
          /\ prevBook[r].status = "open"
          /\ Place(r) # 0
          /\ orderBook[Place(r)].status = "partial"
          /\ Touched(r)


\* C18: an order is partial only if some but not all of its shares have been
\* consumed by trades, and an order none of whose shares has been consumed is
\* open; in particular an incoming limit order that rests with its full
\* original shares is open, not partial.
C18_PartialMeansPartlyConsumed ==
    \A j \in 1..Len(orderBook) :
        LET order == orderBook[j]
            r     == last.origin[j]
        IN  IF r = 0
            THEN /\ order.status = "partial" =>
                        0 < order.shares /\ order.shares < OriginalShares
                 /\ order.shares = OriginalShares => order.status = "open"
            ELSE /\ order.status = "partial" /\ prevBook[r].status = "open" =>
                        0 < order.shares /\ order.shares < prevBook[r].shares
                 /\ order.shares = prevBook[r].shares /\ prevBook[r].status = "open" =>
                        order.status = "open"


\* the price of a is strictly better than the price of b for the incoming
\* limit order of the last request: lower for a buy, higher for a sell
BetterPriced(a, b) ==
    IF last.op = "buy" THEN a.price < b.price ELSE a.price > b.price

\* C19: in a limit match a compatible resting order receives a fill only if
\* every compatible resting order with a strictly better price (lower-priced
\* sells for an incoming buy, higher-priced buys for an incoming sell) has
\* been consumed in full in that match.
C19_LimitMatchBestPriceFirst ==
    Matched =>
        \A k \in 1..Len(last.body.trades) :
            last.body.trades[k].executedShares > 0 =>
                \A r \in 1..Len(prevBook) :
                    (/\ Compatible(prevBook[r])
                     /\ BetterPriced(prevBook[r], prevBook[last.body.trades[k].ref]))
                        => /\ Place(r) = 0
                           /\ \E l \in 1..(k - 1) :
                                 /\ last.body.trades[l].ref = r
                                 /\ last.body.trades[l].executedShares = prevBook[r].shares

\* a limit match that filled a candidate at a worse price after it had used
\* up a better-priced one
C19_Witness ==
    /\ Matched
    /\ \E k, l \in 1..Len(last.body.trades) :
          /\ l < k
          /\ last.body.trades[l].executedShares > 0
          /\ last.body.trades[k].executedShares > 0
          /\ BetterPriced(prevBook[last.body.trades[l].ref],
                          prevBook[last.body.trades[k].ref])


\* the resting orders the loop of the last request could take from: the
\* compatible counter-orders of a limit match, the buy orders of the asset
\* for a market sell
Candidate(o) ==
    IF MarketSell THEN o.type = "buy" /\ o.asset = last.asset ELSE Compatible(o)

\* C20: orders of the same side with equal price stay in insertion order in
\* the Book after every re-sort, a new order or remainder going behind the
\* equal-priced ones already there, and a limit match or market sell fills
\* the earlier-inserted of two equal-priced candidates before the later one.
\* (An id is the time of creation, so a smaller id is an earlier insertion.)
C20_EqualPricesInInsertionOrder ==
    /\ \A i, j \in 1..Len(orderBook) :
          (/\ i < j
           /\ orderBook[i].type = orderBook[j].type
           /\ orderBook[i].price = orderBook[j].price)
              => /\ orderBook[i].id < orderBook[j].id
                 /\ last.origin[i] # 0
                 /\ last.origin[j] # 0 => last.origin[i] < last.origin[j]
    /\ Matched \/ MarketSold =>
          \A k \in 1..Len(last.body.trades) :
              last.body.trades[k].executedShares > 0 =>
                  \A r \in 1..Len(prevBook) :
                      (/\ Candidate(prevBook[r])
                       /\ prevBook[r].price = prevBook[last.body.trades[k].ref].price
                       /\ prevBook[r].id < prevBook[last.body.trades[k].ref].id)
                          => Place(r) = 0

\* two equal-priced candidates both filled, the earlier-inserted one first
\* and in full
C20_Witness ==
    /\ Matched \/ MarketSold
    /\ \E k, l \in 1..Len(last.body.trades) :
          /\ l < k
          /\ last.body.trades[l].executedShares > 0
          /\ last.body.trades[k].executedShares > 0
          /\ last.body.trades[l].price = last.body.trades[k].price
          /\ prevBook[last.body.trades[l].ref].id < prevBook[last.body.trades[k].ref].id
          /\ Place(last.body.trades[l].ref) = 0


\* the order that was prevBook[r] is still in the Book with the shares,
\* notional and status it had
Untouched(r) ==
    /\ Place(r) # 0
    /\ orderBook[Place(r)].shares = prevBook[r].shares
    /\ orderBook[Place(r)].amount = prevBook[r].amount
    /\ orderBook[Place(r)].status = prevBook[r].status

\* C21: a limit placement changes only resting orders of the same asset, on
\* the opposite side, with a price compatible with the incoming limit; every
\* other resting order keeps its shares, notional, status and place in the
\* Book. When no compatible counter-order exists every order is unchanged and
\* the new order rests with status open and its full shares (a sell with
\* potentialGain = round(shares * price, 2)).
C21_LimitPlacementFrame ==
    Placed =>
        /\ \A r \in 1..Len(prevBook) : ~Compatible(prevBook[r]) => Untouched(r)
        /\ (\A r \in 1..Len(prevBook) : ~Compatible(prevBook[r])) =>
              /\ Cardinality(NewPlaces) = 1
              /\ \A j \in NewPlaces :
                    /\ orderBook[j].type = last.op
                    /\ orderBook[j].asset = last.asset
                    /\ orderBook[j].price = last.price
                    /\ orderBook[j].status = "open"
                    /\ orderBook[j].shares = OriginalShares
                    /\ last.op = "sell" =>
                          orderBook[j].potentialGain = ToFixed2(OriginalShares * last.price)


\* the id of the resting order a trade names
TradeId(t) == IF "sellOrderId" \in DOMAIN t THEN t.sellOrderId ELSE t.buyOrderId

\* C22: order ids are unique over the life of the Book: no two orders ever
\* created have the same id (the clock is the id of the order created last,
\* and ids never decrease), hence no two orders resting in the Book and no
\* two trades that name different orders carry the same id.
C22_OrderIdsUnique ==
    /\ [][created' = created + 1 /\ created > 0 => clock' # clock]_vars
    /\ [](\A i, j \in 1..Len(orderBook) : i # j => orderBook[i].id # orderBook[j].id)
    /\ [](Matched \/ MarketSold =>
            \A k, l \in 1..Len(last.body.trades) :
                last.body.trades[k].ref # last.body.trades[l].ref =>
                    TradeId(last.body.trades[k]) # TradeId(last.body.trades[l]))


\* C23: the Book is never crossed within an asset: no resting buy order and
\* resting sell order of the same asset, both with shares left, have the
\* buy's price greater than or equal to the sell's.
C23_BookNeverCrossed ==
    \A i, j \in 1..Len(orderBook) :
        (/\ orderBook[i].type = "buy"
         /\ orderBook[j].type = "sell"
         /\ orderBook[i].asset = orderBook[j].asset
         /\ orderBook[i].shares > 0
         /\ orderBook[j].shares > 0)
            => orderBook[i].price < orderBook[j].price

\* a limit order that crossed the Book has been matched, and the asset still
\* has shares resting on both sides
C23_Witness ==
    /\ Matched
    /\ last.body.executedShares > 0
    /\ \E i, j \in 1..Len(orderBook) :
          /\ orderBook[i].type = "buy"
          /\ orderBook[j].type = "sell"
          /\ orderBook[i].asset = last.asset
          /\ orderBook[j].asset = last.asset
          /\ orderBook[i].shares > 0
          /\ orderBook[j].shares > 0


\* the candidates of the direct sweep of the last market buy, and the state
\* of its loop after the first k of them
SweepCandidates ==
    SelectSeq(sortOrders(prevBook, "sell"), LAMBDA order : order.asset = last.asset)
SweepAt(k) ==
    marketBuyLoop([remainingAmount |-> last.qty, totalShares |-> FracOfInt(0),
                   priceFinal |-> 0], SubSeq(SweepCandidates, 1, k))

\* the candidates the direct sweep, and the cross-hedge, took shares from
SweepConsumed ==
    {k \in 1..Len(SweepCandidates) : SweepAt(k).totalShares # SweepAt(k - 1).totalShares}
HedgeConsumed ==
    {k \in 1..Len(HedgeCandidates) : HedgeAt(k).totalShares # HedgeAt(k - 1).totalShares}
LastOf(S) == CHOOSE k \in S : \A l \in S : l <= k

\* C24: a market buy with a positive budget that returns a success result
\* reports a strictly positive priceFinal, equal to the price (direct sweep)
\* or to 1 - price (cross-hedge, over one or several candidates) of the last
\* resting order it consumed, and strictly positive totalShares.
C24_MarketBuyReportsLastPrice ==
    MarketBuy /\ last.code = 201 /\ ~isError(last.body) =>
        /\ last.body.priceFinal > 0
        /\ last.body.totalShares[1] > 0
        /\ \/ /\ last.body = directResult
              /\ SweepConsumed # {}
              /\ last.body.priceFinal = SweepCandidates[LastOf(SweepConsumed)].price
           \/ /\ last.body = crossResult
              /\ HedgeConsumed # {}
              /\ last.body.priceFinal = 100 - HedgeCandidates[LastOf(HedgeConsumed)].price

==========================================================================
